---- MODULE Spec2Model ----
(***************************************************************************)
(* The search gateway of src/server.js: the credential gate                *)
(* (validateApiKey), the GET /search handler, the outbound Google CSE call *)
(* (makeGoogleCSERequest) with its 'data' / 'end' / 'error' callbacks, and *)
(* the normalisation of the provider's answer.                             *)
(*                                                                         *)
(* JavaScript values are records tagged by their type (t).  Strings are    *)
(* tuples of one-character strings, so that trim and parseInt are computed *)
(* character by character as the runtime does.                             *)
(***************************************************************************)
EXTENDS Integers, Sequences, FiniteSets, TLC

(***************************************************************************)
(* Bounds of the model.                                                    *)
(***************************************************************************)
\* longest item sequence the provider returns
MaxItems == 3
\* most 'data' events of one upstream response
MaxChunks == 1

\* the inbound /search requests of a run
Reqs == {"r1", "r2"}

(***************************************************************************)
(* JavaScript values.                                                      *)
(***************************************************************************)
Undefined == [t |-> "undefined"]
NaN == [t |-> "NaN"]
JNull == [t |-> "null"]
Arr(a) == [t |-> "array", a |-> a]
Str(s) == [t |-> "string", s |-> s]
Num(n) == [t |-> "number", n |-> n]

\* ToBoolean, as used by !x and by x ? a : b
Truthy(v) ==
  CASE v.t = "undefined" -> FALSE
    [] v.t = "null" -> FALSE
    [] v.t = "NaN" -> FALSE
    [] v.t = "string" -> v.s # <<>>
    [] v.t = "number" -> v.n # 0
    [] OTHER -> TRUE

Digits == <<"0", "1", "2", "3", "4", "5", "6", "7", "8", "9">>
IsDigit(c) == \E i \in 1..10 : Digits[i] = c
DigitVal(c) == (CHOOSE i \in 1..10 : Digits[i] = c) - 1
IsSpace(c) == c = " "

RECURSIVE StripLeft(_)
StripLeft(s) ==
  IF s # <<>> /\ IsSpace(Head(s)) THEN StripLeft(Tail(s)) ELSE s

RECURSIVE StripRight(_)
StripRight(s) ==
  IF s # <<>> /\ IsSpace(s[Len(s)]) THEN StripRight(SubSeq(s, 1, Len(s) - 1)) ELSE s

\* String.prototype.trim
Trim(s) == StripRight(StripLeft(s))

\* the value of the longest prefix of decimal digits of s, acc being the
\* value read so far and seen whether a digit was read; NaN without a digit
RECURSIVE ReadDigits(_, _, _)
ReadDigits(s, acc, seen) ==
  IF s # <<>> /\ IsDigit(Head(s))
  THEN ReadDigits(Tail(s), 10 * acc + DigitVal(Head(s)), TRUE)
  ELSE IF seen THEN Num(acc) ELSE NaN

Negate(v) == IF v.t = "number" THEN Num(0 - v.n) ELSE v

\* parseInt of a string: leading white space, an optional sign, then digits
ParseIntStr(s) ==
  LET u == StripLeft(s)
  IN  IF u # <<>> /\ Head(u) = "-" THEN Negate(ReadDigits(Tail(u), 0, FALSE))
      ELSE IF u # <<>> /\ Head(u) = "+" THEN ReadDigits(Tail(u), 0, FALSE)
      ELSE ReadDigits(u, 0, FALSE)

\* parseInt(v): an integer number is converted to its decimal string and
\* read back; anything that is neither a string nor a number gives NaN here
ParseInt(v) ==
  CASE v.t = "string" -> ParseIntStr(v.s)
    [] v.t = "number" -> v
    [] OTHER -> NaN

\* a + b on numbers
JsAdd(a, b) == IF a.t = "number" /\ b.t = "number" THEN Num(a.n + b.n) ELSE NaN

\* Math.min(a, b)
MathMin(a, b) ==
  IF a.t = "number" /\ b.t = "number"
  THEN (IF a.n <= b.n THEN a ELSE b)
  ELSE NaN

\* Array.prototype.slice(0, end): end is converted to an integer (NaN to 0),
\* a negative end counts from the end of the array
Slice0(arr, end) ==
  LET e == IF end.t = "number" THEN end.n ELSE 0
      k == IF e < 0 THEN (IF Len(arr) + e < 0 THEN 0 ELSE Len(arr) + e)
           ELSE (IF e > Len(arr) THEN Len(arr) ELSE e)
  IN  SubSeq(arr, 1, k)

(***************************************************************************)
(* Values the environment supplies.                                        *)
(***************************************************************************)
Secret == Str(<<"k", "1">>)
Wrong == Str(<<"k", "2">>)
GoogleKey == Str(<<"g">>)
GoogleCx == Str(<<"c">>)

\* process.env: a variable is unset or holds a string, possibly the empty one
Envs ==
  [OBGYNRX_PROXY_KEY : {Undefined, Str(<<>>), Secret},
   GOOGLE_CSE_API_KEY : {Undefined, GoogleKey},
   GOOGLE_CSE_CX : {Undefined, GoogleCx}]

\* the X-OBGYNRX-KEY header: absent, empty, the secret, another string
Headers == {Undefined, Str(<<>>), Secret, Wrong}

\* req.query.q: absent, empty, white space only, a text, a repeated parameter
GoodQuery == Str(<<"p", "e">>)
Queries == {Undefined, Str(<<>>), Str(<<" ", " ">>), GoodQuery, Arr(<<GoodQuery, GoodQuery>>)}

\* req.query.limit and req.query.offset: absent or a decimal string
Limits ==
  {Undefined, Str(<<"0">>), Str(<<"-", "1">>), Str(<<"1">>), Str(<<"2">>),
   Str(<<"1", "0">>), Str(<<"1", "1">>), Str(<<"5", "0">>)}
Offsets == {Undefined, Str(<<"0">>), Str(<<"2">>), Str(<<"1", "0">>), Str(<<"-", "3">>)}

Request(h, q, l, o) == [header |-> h, q |-> q, limit |-> l, offset |-> o]

\* the inbound requests
Requests == {Request(h, q, l, o) : h \in Headers, q \in Queries, l \in Limits, o \in Offsets}

\* the requests two concurrent callers send: every header, a missing q, and
\* two searches
ConcRequests ==
  {Request(h, GoodQuery, Undefined, Undefined) : h \in Headers}
    \cup {Request(Secret, Undefined, Undefined, Undefined),
          Request(Secret, GoodQuery, Str(<<"1">>), Str(<<"2">>))}

\* item.link values: one the URL parser accepts, one it throws on
GoodLink == "https://www.acog.org/womens-health"
BadLink == "acog.org/faq"
Links == {GoodLink, BadLink}

Titles == <<"t1", "t2", "t3", "t4">>
Snippets == <<"s1", "s2", "s3", "s4">>

\* the provider's item sequences: item k carries title k and snippet k
ItemSeqs ==
  UNION {{Arr([k \in 1..n |-> [title |-> Titles[k], snippet |-> Snippets[k], link |-> f[k]]]) :
            f \in [1..n -> Links]} : n \in 1..MaxItems}

\* searchInformation.totalResults: absent, a decimal string, another string
TotalResults == {Undefined, Str(<<"1", "2">>), Str(<<"a", "b">>)}

ProviderError == [t |-> "object", message |-> "Daily Limit Exceeded"]

CseDoc(e, tr, it) == [t |-> "object", error |-> e, totalResults |-> tr, items |-> it]

\* the JSON documents the provider may answer with
Docs ==
  {JNull, CseDoc(ProviderError, Undefined, Undefined)}
    \cup {CseDoc(Undefined, tr, it) : tr \in TotalResults, it \in {Undefined} \cup ItemSeqs}

\* a response body: a text that is no JSON, or the text of a JSON document
Malformed == [wellformed |-> FALSE]
TextOf(doc) == [wellformed |-> TRUE, value |-> doc]
BodyTexts == {Malformed} \cup {TextOf(d) : d \in Docs}

\* the bodies the provider answers two concurrent callers with
ConcTexts ==
  {Malformed,
   TextOf(CseDoc(ProviderError, Undefined, Undefined)),
   TextOf(CseDoc(Undefined, Str(<<"1", "2">>),
                 Arr([k \in 1..2 |-> [title |-> Titles[k], snippet |-> Snippets[k],
                                      link |-> GoodLink]])))}

(***************************************************************************)
(* The program.                                                            *)
(***************************************************************************)
\* Array.from(ALLOW), in insertion order
ALLOW ==
  <<"acog.org", "www.acog.org", "smfm.org", "www.smfm.org", "sgo.org", "www.sgo.org",
    "asrm.org", "www.asrm.org", "radiopaedia.org", "www.radiopaedia.org",
    "perinatology.com", "www.perinatology.com", "cdc.gov", "www.cdc.gov",
    "ncbi.nlm.nih.gov", "www.ncbi.nlm.nih.gov", "pmc.ncbi.nlm.nih.gov",
    "books.ncbi.nlm.nih.gov", "exxcellence.org", "www.exxcellence.org",
    "obgproject.com", "www.obgproject.com", "creogsovercoffee.com",
    "www.creogsovercoffee.com">>

\* new Error(text), text being a fixed text followed by an interpolated part
Err(text, arg) == [text |-> text, arg |-> arg]

Response(status, body) == [status |-> status, body |-> body]

\* the gate's rejections carry an error string and nothing else
GateReject(status, error) == [next |-> FALSE, response |-> Response(status, [error |-> error])]

\* a gate that looks at the header first and lets every key through when no
\* secret is configured
validateApiKeyMissingFirst(apiKey, expectedKey) ==
  IF ~Truthy(apiKey)
  THEN GateReject(401, "Unauthorized: Missing API key header")
  ELSE IF ~Truthy(expectedKey) \/ apiKey = expectedKey
  THEN [next |-> TRUE]
  ELSE GateReject(401, "Unauthorized: Invalid API key")

\* validateApiKey: either calls next() or sends the response itself
validateApiKey(apiKey, expectedKey) ==
  IF ~Truthy(expectedKey)
  THEN GateReject(500, "Server configuration error")
  ELSE IF ~Truthy(apiKey)
  THEN GateReject(401, "Unauthorized: Missing API key header")
  ELSE IF apiKey # expectedKey
  THEN GateReject(401, "Unauthorized: Invalid API key")
  ELSE [next |-> TRUE]

\* a test of q that only looks for its presence
QueryRejectedNoTrim(q) == ~Truthy(q)

\* the handler's test of q: !q || typeof q !== 'string' || q.trim().length === 0
QueryRejected(q) == ~Truthy(q) \/ q.t # "string" \/ Len(Trim(q.s)) = 0

BadRequest ==
  Response(400, [error |-> "Query parameter \"q\" is required and must be a non-empty string",
                 allowedDomains |-> ALLOW])

\* const { q, limit = 10, offset = 0 } = req.query: the default replaces undefined
LimitParam(request) == IF request.limit = Undefined THEN Num(10) ELSE request.limit
OffsetParam(request) == IF request.offset = Undefined THEN Num(0) ELSE request.offset

\* const start = parseInt(offset) + 1
StartIndex(offset) == JsAdd(ParseInt(offset), Num(1))

\* const maxResults = Math.min(parseInt(limit), 10)
MaxResults(limit) == MathMin(ParseInt(limit), Num(10))

\* makeGoogleCSERequest's test of its configuration
NotConfigured(e) == ~Truthy(e.GOOGLE_CSE_API_KEY) \/ ~Truthy(e.GOOGLE_CSE_CX)

\* the outbound GET: the query text, the site restriction, start and num
CseCall(query, start) == [q |-> query, sites |-> ALLOW, start |-> start, num |-> 10]

\* JSON.parse
JSONparse(text) ==
  IF text.wellformed THEN [ok |-> TRUE, value |-> text.value] ELSE [ok |-> FALSE]

\* what a settled promise holds
Resolved(value) == [ok |-> TRUE, value |-> value]
Rejected(error) == [ok |-> FALSE, error |-> error]

\* `${result.error.message}`
ErrorMessageOf(e) == IF "message" \in DOMAIN e THEN e.message ELSE "undefined"

\* an 'end' callback that resolves with whatever parses
OnEndSettlesNoErrorCheck(text) ==
  LET parsed == JSONparse(text)
  IN  IF ~parsed.ok
      THEN Rejected(Err("Failed to parse search results", ""))
      ELSE Resolved(parsed.value)

\* the 'end' callback: parse the body, reject on an embedded error, else
\* resolve; a SyntaxError, or the TypeError of reading null.error, is caught
OnEndSettles(text) ==
  LET parsed == JSONparse(text)
  IN  IF ~parsed.ok \/ parsed.value.t = "null"
      THEN Rejected(Err("Failed to parse search results", ""))
      ELSE IF Truthy(parsed.value.error)
      THEN Rejected(Err("Google CSE API error: ", ErrorMessageOf(parsed.value.error)))
      ELSE Resolved(parsed.value)

\* new URL(link).hostname: throws on a link without a scheme
URLParse(link) ==
  CASE link = GoodLink -> [ok |-> TRUE, hostname |-> "www.acog.org"]
    [] OTHER -> [ok |-> FALSE]

\* cseResponse.searchInformation?.totalResults ? parseInt(...) : 0
Total(cse) == IF Truthy(cse.totalResults) THEN ParseInt(cse.totalResults) ELSE Num(0)

\* (cseResponse.items || []).slice(0, maxResults)
KeptItems(cse, maxResults) ==
  Slice0(IF Truthy(cse.items) THEN cse.items.a ELSE <<>>, maxResults)

\* a map callback that numbers the results from 1 on every page
ResultOfNoOffset(item, index, offset) ==
  [id |-> JsAdd(Num(index), Num(1)),
   title |-> item.title,
   description |-> item.snippet,
   url |-> item.link,
   domain |-> URLParse(item.link).hostname]

\* the map callback
ResultOf(item, index, offset) ==
  [id |-> JsAdd(JsAdd(ParseInt(offset), Num(index)), Num(1)),
   title |-> item.title,
   description |-> item.snippet,
   url |-> item.link,
   domain |-> URLParse(item.link).hostname]

SearchError(error) ==
  Response(500, [error |-> "Search service error", message |-> error, allowedDomains |-> ALLOW])

\* the handler after `await makeGoogleCSERequest(q, start)`: the try block's
\* transformation, and the catch block for a rejection or for the TypeError
\* thrown by a property read on null or by new URL
AfterAwait(request, settled) ==
  IF ~settled.ok THEN SearchError(settled.error)
  ELSE IF settled.value.t = "null" THEN SearchError(Err("Cannot read properties of null", ""))
  ELSE
    LET cse == settled.value
        maxResults == MaxResults(LimitParam(request))
        kept == KeptItems(cse, maxResults)
    IN  IF \E k \in 1..Len(kept) : ~URLParse(kept[k].link).ok
        THEN SearchError(Err("Invalid URL", ""))
        ELSE Response(200,
               [query |-> request.q,
                total |-> Total(cse),
                limit |-> maxResults,
                offset |-> ParseInt(OffsetParam(request)),
                allowedDomains |-> ALLOW,
                results |-> [k \in 1..Len(kept) |->
                               ResultOf(kept[k], k - 1, OffsetParam(request))]])

(***************************************************************************)
(* The state.                                                              *)
(***************************************************************************)
VARIABLES
  env,        \* process.env, read by every request and never written
  req,        \* per request: the inbound request, NoRequest before it arrives
  steps,      \* per request: the pipeline steps it has gone through (see below)
  calls,      \* per request: the outbound calls issued for it
  conn,       \* per request: the state of the outbound connection
  data,       \* per request: the chunks the 'data' callback has accumulated
  received,   \* per request: the body text the 'end' callback parsed
  promise,    \* per request: the promise of makeGoogleCSERequest
  responses   \* per request: the HTTP responses sent to the caller

vars == <<env, req, steps, calls, conn, data, received, promise, responses>>

\* The steps of a request, by the place the code has reached:
\*   Unauthenticated  the request has arrived at validateApiKey
\*   Authenticated    validateApiKey has called next()
\*   QueryBuilt       q has passed its test, start and maxResults are computed
\*   UpstreamCalled   https.get has been issued
\*   Normalized       the results object has been built
\*   Responded        res.json(results) has been called
\*   Rejected         a 4xx or 5xx response has been sent

NoRequest == [t |-> "none"]
NoText == [t |-> "none"]
Chunk == "chunk"

Init ==
  /\ env \in Envs
  /\ req = [r \in Reqs |-> NoRequest]
  /\ steps = [r \in Reqs |-> <<>>]
  /\ calls = [r \in Reqs |-> <<>>]
  /\ conn = [r \in Reqs |-> "none"]
  /\ data = [r \in Reqs |-> <<>>]
  /\ received = [r \in Reqs |-> NoText]
  /\ promise = [r \in Reqs |-> "none"]
  /\ responses = [r \in Reqs |-> <<>>]

\* the steps the handler goes through once the awaited promise has settled
StepsAfterAwait(response) ==
  IF response.status = 200 THEN <<"Normalized", "Responded">> ELSE <<"Rejected">>

\* the calls makeGoogleCSERequest issues: one https.get
IssueCalls(call) == <<call>>

\* a promise whose every resolve or reject resumes the handler
SettleEveryTime(r, settled) ==
  IF promise[r] # "none"
  THEN LET response == AfterAwait(req[r], settled)
       IN  /\ promise' = [promise EXCEPT ![r] = IF settled.ok THEN "resolved" ELSE "rejected"]
           /\ responses' = [responses EXCEPT ![r] = Append(@, response)]
           /\ steps' = [steps EXCEPT ![r] = @ \o StepsAfterAwait(response)]
  ELSE UNCHANGED <<promise, responses, steps>>

\* resolve / reject: the first one settles the promise and resumes the handler,
\* which runs to its response before any other callback; later ones do nothing
Settle(r, settled) ==
  IF promise[r] = "pending"
  THEN LET response == AfterAwait(req[r], settled)
       IN  /\ promise' = [promise EXCEPT ![r] = IF settled.ok THEN "resolved" ELSE "rejected"]
           /\ responses' = [responses EXCEPT ![r] = Append(@, response)]
           /\ steps' = [steps EXCEPT ![r] = @ \o StepsAfterAwait(response)]
  ELSE UNCHANGED <<promise, responses, steps>>

\* GET /search: validateApiKey, then the handler up to its await.  Without the
\* provider's configuration the promise is rejected in its executor and the
\* handler resumes at once; otherwise https.get is issued and the handler waits.
Search(r, requests) ==
  /\ req[r] = NoRequest
  /\ \E request \in requests :
       LET gate == validateApiKey(request.header, env.OBGYNRX_PROXY_KEY)
           start == StartIndex(OffsetParam(request))
           failed == AfterAwait(request, Rejected(Err("Google CSE API key or CX not configured", "")))
       IN  /\ req' = [req EXCEPT ![r] = request]
           /\ IF ~gate.next
              THEN /\ responses' = [responses EXCEPT ![r] = <<gate.response>>]
                   /\ steps' = [steps EXCEPT ![r] = <<"Unauthenticated", "Rejected">>]
                   /\ UNCHANGED <<calls, conn, promise>>
              ELSE IF QueryRejected(request.q)
              THEN /\ responses' = [responses EXCEPT ![r] = <<BadRequest>>]
                   /\ steps' = [steps EXCEPT ![r] = <<"Unauthenticated", "Authenticated", "Rejected">>]
                   /\ UNCHANGED <<calls, conn, promise>>
              ELSE IF NotConfigured(env)
              THEN /\ responses' = [responses EXCEPT ![r] = <<failed>>]
                   /\ steps' = [steps EXCEPT ![r] =
                        <<"Unauthenticated", "Authenticated", "QueryBuilt", "Rejected">>]
                   /\ promise' = [promise EXCEPT ![r] = "rejected"]
                   /\ UNCHANGED <<calls, conn>>
              ELSE /\ calls' = [calls EXCEPT ![r] = IssueCalls(CseCall(request.q, start))]
                   /\ conn' = [conn EXCEPT ![r] = "requested"]
                   /\ promise' = [promise EXCEPT ![r] = "pending"]
                   /\ steps' = [steps EXCEPT ![r] =
                        <<"Unauthenticated", "Authenticated", "QueryBuilt", "UpstreamCalled">>]
                   /\ UNCHANGED responses
  /\ UNCHANGED <<env, data, received>>

\* the https.get callback: the provider's response has begun; let data = ''
OnResponse(r) ==
  /\ conn[r] = "requested"
  /\ conn' = [conn EXCEPT ![r] = "receiving"]
  /\ data' = [data EXCEPT ![r] = <<>>]
  /\ UNCHANGED <<env, req, steps, calls, received, promise, responses>>

\* res.on('data'): data += chunk
OnData(r) ==
  /\ conn[r] = "receiving"
  /\ Len(data[r]) < MaxChunks
  /\ data' = [data EXCEPT ![r] = Append(@, Chunk)]
  /\ UNCHANGED <<env, req, steps, calls, conn, received, promise, responses>>

\* res.on('end').  What the chunks spell is the provider's choice and is not
\* read before this point, so it is drawn here; no chunk spells the empty text.
OnEnd(r, texts) ==
  /\ conn[r] = "receiving"
  /\ \E text \in texts :
       /\ data[r] = <<>> => text = Malformed
       /\ received' = [received EXCEPT ![r] = text]
       /\ Settle(r, OnEndSettles(text))
  /\ conn' = [conn EXCEPT ![r] = "ended"]
  /\ UNCHANGED <<env, req, calls, data>>

\* an 'error' callback that issues the call once more before it gives up
OnErrorRetry(r) ==
  /\ conn[r] \in {"requested", "receiving", "ended"}
  /\ IF Len(calls[r]) = 1 /\ promise[r] = "pending"
     THEN /\ calls' = [calls EXCEPT ![r] = Append(@, @[1])]
          /\ conn' = [conn EXCEPT ![r] = "requested"]
          /\ UNCHANGED <<promise, responses, steps>>
     ELSE /\ conn' = [conn EXCEPT ![r] = "failed"]
          /\ Settle(r, Rejected(Err("Search service unavailable", "")))
          /\ UNCHANGED calls
  /\ UNCHANGED <<env, req, data, received>>

\* .on('error') of the request: before the response, while it is received, or
\* on the socket after the response has ended
OnError(r) ==
  /\ conn[r] \in {"requested", "receiving", "ended"}
  /\ conn' = [conn EXCEPT ![r] = "failed"]
  /\ Settle(r, Rejected(Err("Search service unavailable", "")))
  /\ UNCHANGED <<env, req, calls, data, received>>

\* the provider stops answering: https.get has no timeout, no callback runs
Hang(r) ==
  /\ conn[r] \in {"requested", "receiving"}
  /\ conn' = [conn EXCEPT ![r] = "hung"]
  /\ UNCHANGED <<env, req, steps, calls, data, received, promise, responses>>

\* one request, with every input
Next ==
  \/ Search("r1", Requests)
  \/ OnResponse("r1")
  \/ OnData("r1")
  \/ OnEnd("r1", BodyTexts)
  \/ OnError("r1")
  \/ Hang("r1")

Spec == Init /\ [][Next]_vars

\* the requests of Reqs side by side, their callbacks interleaved in any order
ConcNext ==
  \E r \in Reqs :
    \/ Search(r, ConcRequests)
    \/ OnResponse(r)
    \/ OnData(r)
    \/ OnEnd(r, ConcTexts)
    \/ OnError(r)
    \/ Hang(r)

ConcSpec == Init /\ [][ConcNext]_vars

(***************************************************************************)
(* Vocabulary of the properties.                                           *)
(***************************************************************************)
Pipeline ==
  <<"Unauthenticated", "Authenticated", "QueryBuilt", "UpstreamCalled", "Normalized", "Responded">>

Arrived(r) == req[r] # NoRequest
Answered(r) == responses[r] # <<>>
Reached(r, step) == \E i \in 1..Len(steps[r]) : steps[r][i] = step
LastStep(r) == steps[r][Len(steps[r])]

\* an environment variable or a header holds a non-empty string
IsSet(v) == v.t = "string" /\ Len(v.s) > 0
SecretConfigured == IsSet(env.OBGYNRX_PROXY_KEY)
ProviderConfigured == IsSet(env.GOOGLE_CSE_API_KEY) /\ IsSet(env.GOOGLE_CSE_CX)

\* the request carries the configured secret
Credentialed(r) == SecretConfigured /\ req[r].header = env.OBGYNRX_PROXY_KEY

\* q is a string with a character that is not white space
HasQuery(r) == req[r].q.t = "string" /\ \E i \in 1..Len(req[r].q.s) : req[r].q.s[i] # " "

\* the request passed the gate and the query validation
Passed(r) == Arrived(r) /\ Credentialed(r) /\ HasQuery(r)

(***************************************************************************)
(* C1.  The credential gate decides in this order: without a configured    *)
(* secret the response is 500, whatever the header; else an absent header  *)
(* gives 401; else a header that differs from the secret gives 401; the    *)
(* handler is reached only with a header equal to a configured secret.     *)
(***************************************************************************)
C1_GateOrder ==
  \A r \in Reqs : Arrived(r) =>
    /\ ~SecretConfigured => Answered(r) /\ responses[r][1].status = 500 /\ ~Reached(r, "Authenticated")
    /\ SecretConfigured /\ req[r].header = Undefined =>
         Answered(r) /\ responses[r][1].status = 401 /\ ~Reached(r, "Authenticated")
    /\ SecretConfigured /\ req[r].header # Undefined /\ req[r].header # env.OBGYNRX_PROXY_KEY =>
         Answered(r) /\ responses[r][1].status = 401 /\ ~Reached(r, "Authenticated")
    /\ Reached(r, "Authenticated") <=> Credentialed(r)

\* a header that differs from the configured secret has been turned away
C1_Witness ==
  \E r \in Reqs :
    /\ Arrived(r) /\ SecretConfigured /\ req[r].header = Wrong
    /\ Answered(r) /\ responses[r][1].status = 401

(***************************************************************************)
(* C2.  An outbound call happens only after the gate has accepted the      *)
(* request and q has been found non-empty after trimming; a request ending *)
(* in 401, in the gate's 500 or in 400 causes no outbound call; the        *)
(* pipeline steps occur in their order, none skipped or revisited, up to   *)
(* the step at which the request is rejected.                              *)
(***************************************************************************)
C2_CallOnlyAfterGateAndQuery ==
  \A r \in Reqs : Arrived(r) =>
    /\ calls[r] # <<>> => Credentialed(r) /\ HasQuery(r)
    /\ calls[r] # <<>> <=> Reached(r, "UpstreamCalled")
    /\ Answered(r) /\ (responses[r][1].status \in {400, 401}
                        \/ (responses[r][1].status = 500 /\ ~SecretConfigured))
         => calls[r] = <<>>
    /\ \E n \in 1..Len(Pipeline) :
         \/ steps[r] = SubSeq(Pipeline, 1, n)
         \/ n < Len(Pipeline) /\ steps[r] = Append(SubSeq(Pipeline, 1, n), "Rejected")

\* a search has gone through all six steps
C2_Witness == \E r \in Reqs : steps[r] = Pipeline /\ Len(calls[r]) = 1

(***************************************************************************)
(* C3 as stated: every request that passes the gate and the query          *)
(* validation triggers exactly one outbound call.                          *)
(***************************************************************************)
C3_ExactlyOneCall == \A r \in Reqs : Passed(r) => Len(calls[r]) = 1

(***************************************************************************)
(* C3 as amended: no request triggers more than one outbound call; a       *)
(* request that passes the gate and the query validation triggers exactly  *)
(* one when the provider key and engine id are configured and none when    *)
(* they are not; a request that does not pass triggers none.               *)
(***************************************************************************)
C3_OneCallWhenConfigured ==
  \A r \in Reqs :
    /\ Len(calls[r]) <= 1
    /\ Passed(r) /\ ProviderConfigured => Len(calls[r]) = 1
    /\ Passed(r) /\ ~ProviderConfigured => Len(calls[r]) = 0
    /\ ~Passed(r) => Len(calls[r]) = 0

\* two concurrent searches, one ended by a network error and one by a body
\* that is not JSON, each with its single call
C3_Witness ==
  \E r1, r2 \in Reqs :
    /\ r1 # r2 /\ Passed(r1) /\ Passed(r2)
    /\ conn[r1] = "failed" /\ received[r2] = Malformed
    /\ Len(calls[r1]) = 1 /\ Len(calls[r2]) = 1

(***************************************************************************)
(* C4 as stated: every request is answered by exactly one HTTP response,   *)
(* never two and never none: a request not answered yet still has a        *)
(* callback of its outbound call to run.                                   *)
(***************************************************************************)
C4_ExactlyOneResponse ==
  \A r \in Reqs : Arrived(r) =>
    /\ Len(responses[r]) <= 1
    /\ Len(responses[r]) = 1
         \/ ENABLED (OnResponse(r) \/ OnData(r) \/ OnEnd(r, ConcTexts) \/ OnError(r))

(***************************************************************************)
(* C4 as amended: a request is never answered twice, also when the         *)
(* outbound connection both ends and raises an error; it has exactly one   *)
(* response, a 200 with a results body at Responded or a 4xx/5xx with an   *)
(* error body at Rejected, as soon as the gate or the query validation     *)
(* rejects it, the provider is found unconfigured, or the outbound call    *)
(* ends or fails; it has none only while the outbound call is unanswered,  *)
(* which lasts forever when the provider never answers.                    *)
(***************************************************************************)
C4_AtMostOneResponse ==
  \A r \in Reqs : Arrived(r) =>
    /\ Len(responses[r]) <= 1
    /\ Len(responses[r]) = 0 <=> conn[r] \in {"requested", "receiving", "hung"}
    /\ Len(responses[r]) = 1 =>
         \/ /\ responses[r][1].status = 200
            /\ LastStep(r) = "Responded"
            /\ "results" \in DOMAIN responses[r][1].body
         \/ /\ responses[r][1].status \in {400, 401, 500}
            /\ LastStep(r) = "Rejected"
            /\ "error" \in DOMAIN responses[r][1].body

\* the outbound connection delivered its body and then raised an error
C4_Witness ==
  \E r \in Reqs :
    /\ promise[r] = "resolved" /\ data[r] # <<>> /\ conn[r] = "failed"
    /\ Len(responses[r]) = 1

\* the caller's limit and offset as integers (both are decimal strings or absent)
CallerLimit(r) == ParseInt(LimitParam(req[r])).n
CallerOffset(r) == ParseInt(OffsetParam(req[r])).n

Ok200(r) == Answered(r) /\ responses[r][1].status = 200

(***************************************************************************)
(* C5.  The effective limit of a search, the limit field of its response   *)
(* and the bound on its results, lies in [1, 10]: a limit above 10 becomes *)
(* 10 and a limit below 1 becomes 1.                                       *)
(***************************************************************************)
C5_LimitClamped ==
  \A r \in Reqs : Ok200(r) =>
    LET limit == responses[r][1].body.limit
    IN  /\ limit.t = "number"
        /\ limit.n = (IF CallerLimit(r) > 10 THEN 10
                      ELSE IF CallerLimit(r) < 1 THEN 1 ELSE CallerLimit(r))
        /\ Len(responses[r][1].body.results) <= limit.n

(***************************************************************************)
(* C6.  The start index sent to the provider is offset + 1 for an offset   *)
(* >= 0 and 1 for a negative offset, hence always >= 1.                    *)
(***************************************************************************)
C6_StartIndex ==
  \A r \in Reqs : \A i \in 1..Len(calls[r]) :
    LET start == calls[r][i].start
    IN  /\ start.t = "number"
        /\ start.n = (IF CallerOffset(r) >= 0 THEN CallerOffset(r) + 1 ELSE 1)
        /\ start.n >= 1

\* the items of the provider's answer to r
ProviderItems(r) ==
  IF received[r].value.items = Undefined THEN <<>> ELSE received[r].value.items.a

Min(a, b) == IF a <= b THEN a ELSE b

(***************************************************************************)
(* C7.  For a successful search with offset >= 0 and limit in [1, 10] and  *)
(* n provider items: the results have length min(n, limit), result k is    *)
(* built from provider item k, and the ids are offset+1, offset+2, ... in  *)
(* that order.                                                             *)
(***************************************************************************)
C7_ResultsInOrder ==
  \A r \in Reqs : Ok200(r) /\ CallerOffset(r) >= 0 /\ CallerLimit(r) \in 1..10 =>
    LET results == responses[r][1].body.results
        items == ProviderItems(r)
    IN  /\ Len(results) = Min(Len(items), CallerLimit(r))
        /\ \A k \in 1..Len(results) :
             /\ results[k].id = Num(CallerOffset(r) + k)
             /\ results[k].title = items[k].title
             /\ results[k].description = items[k].snippet
             /\ results[k].url = items[k].link

\* three provider items cut to two results, at offset 2
C7_Witness ==
  \E r \in Reqs :
    /\ Ok200(r) /\ CallerOffset(r) = 2 /\ CallerLimit(r) = 2
    /\ Len(ProviderItems(r)) = 3
    /\ Len(responses[r][1].body.results) = 2

(***************************************************************************)
(* C8.  Every error response of /search, whatever its status, has a body   *)
(* with an error string and an allowedDomains field equal to the           *)
(* allowlist.                                                              *)
(***************************************************************************)
C8_ErrorBodies ==
  \A r \in Reqs : \A i \in 1..Len(responses[r]) :
    responses[r][i].status # 200 =>
      /\ "error" \in DOMAIN responses[r][i].body
      /\ "allowedDomains" \in DOMAIN responses[r][i].body
      /\ responses[r][i].body.allowedDomains = ALLOW

\* the failures of a search that passed the gate and the query validation
NetworkFailure(r) == conn[r] = "failed" /\ received[r] = NoText
NotJson(r) == received[r] = Malformed
EmbeddedError(r) ==
  /\ received[r] \notin {NoText, Malformed}
  /\ received[r].value.t = "object"
  /\ received[r].value.error # Undefined
\* a result item is one of the items the normaliser keeps
BadResultUrl(r) ==
  /\ received[r] \notin {NoText, Malformed}
  /\ received[r].value.t = "object"
  /\ received[r].value.error = Undefined
  /\ \E k \in 1..Len(ProviderItems(r)) :
       /\ k <= Len(KeptItems(received[r].value, MaxResults(LimitParam(req[r]))))
       /\ ProviderItems(r)[k].link = BadLink
Failure(r) ==
  ~ProviderConfigured \/ NetworkFailure(r) \/ NotJson(r) \/ EmbeddedError(r) \/ BadResultUrl(r)

(***************************************************************************)
(* C9.  A search that passed the gate and the query validation fully       *)
(* succeeds or fully fails: when the provider is not configured, the call  *)
(* fails at network level, the body is no JSON, the payload carries an     *)
(* error object or the URL of a result item cannot be parsed, the response *)
(* is 500 "Search service error" without results (with a message from the  *)
(* provider's for an embedded error); a 200 is sent only without any of    *)
(* these failures.                                                         *)
(***************************************************************************)
C9_AllOrNothing ==
  \A r \in Reqs : Passed(r) /\ Answered(r) =>
    LET response == responses[r][1]
    IN  /\ Failure(r) =>
             /\ response.status = 500
             /\ response.body.error = "Search service error"
             /\ "results" \notin DOMAIN response.body
             /\ "message" \in DOMAIN response.body
        /\ ProviderConfigured /\ EmbeddedError(r) =>
             response.body.message.arg = received[r].value.error.message
        /\ response.status = 200 =>
             /\ ~Failure(r)
             /\ "results" \in DOMAIN response.body
             /\ "error" \notin DOMAIN response.body

\* the provider answered with an embedded error and the caller got the 500
C9_Witness ==
  \E r \in Reqs :
    /\ Passed(r) /\ Answered(r) /\ EmbeddedError(r)
    /\ responses[r][1].status = 500
    /\ responses[r][1].body.message.arg = "Daily Limit Exceeded"

(***************************************************************************)
(* C10.  In every 200 response total is an integer: the provider's total   *)
(* count when it is present and parses as an integer, 0 when it is absent  *)
(* or cannot be parsed.                                                    *)
(***************************************************************************)
C10_TotalInteger ==
  \A r \in Reqs : Ok200(r) =>
    LET total == responses[r][1].body.total
        reported == received[r].value.totalResults
    IN  /\ total.t = "number"
        /\ reported = Undefined => total.n = 0
        /\ reported # Undefined /\ ParseInt(reported).t = "number" => total = ParseInt(reported)
        /\ reported # Undefined /\ ParseInt(reported).t # "number" => total.n = 0

====
